---- MODULE Spec2Model ----
\* eBay token lifecycle of the seller dashboard: the Home component
\* (src/src/pages/Home.jsx) and the token validator
\* (src/src/utils/getValidAuthToken.js).
\*
\* Strings are modelled as records [kind, value, expiry]:
\*   kind "null"  the JS null (localStorage.getItem of a missing key, useState(null))
\*   kind "str"   a plain string whose text is `value` (a token, a user id)
\*   kind "json"  the text JSON.stringify({value, expiry}) produces
\* so that the raw text of a storage entry and a token string are different
\* values, as they are in the program.
EXTENDS Integers, Sequences, FiniteSets, Bags, TLC

VARIABLES
  localStorage,     \* window.localStorage: key -> string or null
  user,             \* userStore's user: NoUser or a user id
  mounted,          \* whether Home is mounted
  ebayToken,        \* useState(null)
  needsConnection,  \* useState(false)
  loadingListings,  \* useState(false)
  listingsError,    \* useState(null)
  pendingEffects,   \* effects of the last commit whose dependencies changed
  checks,           \* bag of checkToken calls suspended at `await getValidAuthToken`
  exchanges,        \* bag of handleMessage calls suspended at `await exchangeCode`
  fetches,          \* bag of fetchListings calls suspended at an await
  now,              \* Date.now()
  ev,               \* the last step taken (observation only)
  budget,           \* external events (messages, signals, user changes, unmount,
                    \* clock ticks) still allowed
  vstate            \* the validator called on its own (SpecValidator)

vars == <<localStorage, user, mounted, ebayToken, needsConnection, loadingListings,
          listingsError, pendingEffects, checks, exchanges, fetches, now, ev,
          budget, vstate>>

-----------------------------------------------------------------------------
\* Bounds of the model.

MaxEvents == 1
MaxNow == 1000
MaxNowV == 3
MaxCallsV == 3

\* Program constants.
DefaultExpiresIn == 7200
MsPerSecond == 1000

\* Values standing for JS values that are not numbers.
NaN == -1
NullExpiry == -1

TickMs == MsPerSecond

Tokens == {"t1", "t2"}
RefreshTokens == {"r1"}
Users == {"u1"}
NoUser == "nouser"
Undefined == "undefined"
OwnOrigin == "https://app"
Origins == {OwnOrigin, "https://evil"}
Keys == {"user-store", "ebay_user_token", "ebay_refresh_token", "userId", "user_id"}
NoError == "none"

Null == [kind |-> "null", value |-> Undefined, expiry |-> NullExpiry]
Str(s) == [kind |-> "str", value |-> s, expiry |-> NullExpiry]

\* `if (x)` on a string-or-null.
Truthy(s) == s.kind # "null" /\ (s.kind = "str" => s.value # "")
\* `if (v)` / `&& value` on a parsed field.
TruthyField(v) == v # Undefined /\ v # ""

\* JSON.stringify({value, expiry}): a number that is NaN is written as null, an
\* undefined value is dropped.
JSONstringify(value, expiry) ==
  [kind |-> "json", value |-> value, expiry |-> IF expiry = NaN THEN NullExpiry ELSE expiry]

\* JSON.parse(raw) followed by the destructuring {value, expiry}: throws on text
\* that is not JSON (a bare token string).
JSONparse(raw) ==
  [ok |-> raw.kind = "json", value |-> raw.value, expiry |-> raw.expiry]

\* Date.now() + expiresIn * 1000, NaN when expiresIn is undefined.
ExpiryAt(t, expiresIn) == IF expiresIn = NaN THEN NaN ELSE t + expiresIn * MsPerSecond

\* OrDefault with the fallback left out.
OrDefaultNone(x) == x

\* x || 7200
OrDefault(x) == IF x = NaN \/ x = 0 THEN DefaultExpiresIn ELSE x

setItem(ls, key, val) == [ls EXCEPT ![key] = val]
removeItem(ls, key) == [ls EXCEPT ![key] = Null]

-----------------------------------------------------------------------------
\* getValidAuthToken.js

\* StoredValid with the local-first policy left out: every call goes remote.
StoredValidNever(raw, t) == FALSE

\* StoredValid with the expiry comparison off by one (<= for <).
StoredValidInclusive(raw, t) ==
  /\ Truthy(raw)
  /\ LET p == JSONparse(raw)
     IN  /\ p.ok
         /\ p.expiry # NullExpiry
         /\ t <= p.expiry
         /\ TruthyField(p.value)

\* Lines 15-27: the stored entry is returned without a remote call.
StoredValid(raw, t) ==
  /\ Truthy(raw)
  /\ LET p == JSONparse(raw)
     IN  /\ p.ok
         /\ p.expiry # NullExpiry
         /\ t < p.expiry
         /\ TruthyField(p.value)

\* Responses of apiService.auth.getEbayUserToken.
TokenStatusResponses ==
  {[kind |-> "throw", access_token |-> Undefined, expires_in_seconds |-> NaN],
   [kind |-> "fail", access_token |-> Undefined, expires_in_seconds |-> NaN]}
  \cup {[kind |-> "ok", access_token |-> a, expires_in_seconds |-> e] :
          a \in Tokens, e \in {NaN, 1}}

\* TokenStatusOk with the test of resp.success left out.
TokenStatusOkUnchecked(resp) == resp.kind # "throw"

\* Lines 40-45.
TokenStatusOk(resp) == resp.kind = "ok" /\ resp.access_token # Undefined

\* Lines 31-61: what the validator returns once the remote call has completed.
ValidatorRemoteResult(resp) ==
  IF TokenStatusOk(resp) THEN Str(resp.access_token) ELSE Null

\* Lines 46-55: what the validator leaves in storage once the remote call has completed.
ValidatorRemoteStore(ls, resp, t) ==
  IF TokenStatusOk(resp)
  THEN setItem(ls, "ebay_user_token",
               JSONstringify(resp.access_token, ExpiryAt(t, resp.expires_in_seconds)))
  ELSE ls

-----------------------------------------------------------------------------
\* Home.jsx

\* A state setter called from a continuation: nothing happens once the
\* component has unmounted.
SetState(old, new) == IF mounted THEN new ELSE old

\* React: a committed render schedules the effects whose dependencies changed.
\* fetchListings depends on [ebayToken, user], checkToken on [user].
Commit(tokenBefore, tokenAfter, userChanged) ==
  IF ~mounted THEN {}
  ELSE (IF tokenBefore # tokenAfter \/ userChanged THEN {"fetchListings"} ELSE {})
       \cup (IF userChanged THEN {"checkToken"} ELSE {})

\* The calls in flight once ebayToken has gone from tokenBefore to tokenAfter.
Superseded(bag, tokenBefore, tokenAfter) ==
  IF tokenBefore = tokenAfter
  THEN bag
  ELSE BagOfAll(LAMBDA f : [f EXCEPT !.cur = FALSE], bag)

Quiet == pendingEffects = {}

\* TrustedOrigin with the origin check left out.
TrustedOriginAny(origin) == TRUE

\* Line 32.
TrustedOrigin(origin) == origin = OwnOrigin

\* Lines 31-36: a message event reaches the listener.
handleMessage(origin, code) ==
  /\ mounted /\ Quiet /\ budget > 0
  /\ budget' = budget - 1
  /\ ev' = (IF origin # OwnOrigin THEN "message_foreign" ELSE "message_own")
             \o (IF code THEN "_code" ELSE "_nocode")
  /\ exchanges' =
       IF TrustedOrigin(origin) /\ code /\ user # NoUser
       THEN exchanges (+) SetToBag({[uid |-> user]})
       ELSE exchanges
  /\ UNCHANGED <<localStorage, user, mounted, ebayToken, needsConnection,
                 loadingListings, listingsError, pendingEffects, checks, fetches,
                 now, vstate>>

\* Responses of apiService.auth.exchangeCode.
ExchangeResponses ==
  {[kind |-> "throw", access_token |-> Undefined, refresh_token |-> Undefined, expires_in |-> NaN],
   [kind |-> "fail", access_token |-> Undefined, refresh_token |-> Undefined, expires_in |-> NaN]}
  \cup {[kind |-> "ok", access_token |-> a, refresh_token |-> r, expires_in |-> e] :
          a \in Tokens, r \in RefreshTokens \cup {Undefined}, e \in {NaN, 1}}

\* Lines 44-59: storage after a successful exchange.
ExchangeStore(ls, uid, resp, t) ==
  LET a == setItem(ls, "userId", Str(uid))
      b == setItem(a, "ebay_user_token",
                   JSONstringify(resp.access_token,
                                 ExpiryAt(t, OrDefault(resp.expires_in))))
  IN  IF resp.refresh_token # Undefined
      THEN setItem(b, "ebay_refresh_token", Str(resp.refresh_token))
      ELSE b

\* The step that resumes handleMessage with the response `resp`.
ExchangeReturn(resp) ==
  "exchange_" \o resp.kind \o "_" \o resp.access_token
    \o (IF resp.expires_in = NaN THEN "_noexpiry" ELSE "_expiry")
    \o (IF resp.refresh_token = Undefined THEN "_norefresh" ELSE "_refresh")

ExchangeOkSteps == {ExchangeReturn(resp) : resp \in {r \in ExchangeResponses : r.kind = "ok"}}

\* ExchangeSucceeded with the test of line 43 left out.
ExchangeSucceededUnchecked(resp) == resp.kind # "throw"

\* Lines 38-43: the call returned and the response says success.
ExchangeSucceeded(resp) == resp.kind = "ok"

\* The token checks in flight once an exchange has set ebayToken and
\* needsConnection.
Raced(bag) == BagOfAll(LAMBDA c : [c EXCEPT !.raced = TRUE], bag)

\* Lines 38-65: exchangeCode has completed.
handleMessageResume(x, resp) ==
  /\ Quiet
  /\ BagIn(x, exchanges)
  /\ exchanges' = exchanges (-) SetToBag({x})
  /\ ev' = ExchangeReturn(resp)
  /\ IF ExchangeSucceeded(resp)
     THEN /\ localStorage' = ExchangeStore(localStorage, x.uid, resp, now)
          /\ ebayToken' = SetState(ebayToken, Str(resp.access_token))
          /\ needsConnection' = SetState(needsConnection, FALSE)
     ELSE \* caught at line 63
          UNCHANGED <<localStorage, ebayToken, needsConnection>>
  /\ checks' = IF ExchangeSucceeded(resp) /\ mounted THEN Raced(checks) ELSE checks
  /\ pendingEffects' = Commit(ebayToken, ebayToken', FALSE)
  /\ fetches' = Superseded(fetches, ebayToken, ebayToken')
  /\ UNCHANGED <<user, mounted, loadingListings, listingsError, now, budget, vstate>>

\* Lines 76-88: checkToken up to its await; the validator's lines 15-27 run in
\* the same turn.
\* Observation only: `raced` records that a popup exchange has written its
\* result while the call was suspended.
CheckStart(ls, uid, t) ==
  LET raw == ls["ebay_user_token"]
  IN  [uid |-> uid,
       hadLocal |-> Truthy(raw),
       raced |-> FALSE,
       phase |-> IF StoredValid(raw, t) THEN "resolved" ELSE "remote",
       value |-> IF StoredValid(raw, t) THEN JSONparse(raw).value ELSE Undefined]

\* Lines 114-119: fetchListings up to its first await.
\* Observation only: `retry` records that the call was started by the commit of
\* a successful refresh, `cur` that ebayToken still holds the value the call was
\* started for.
FetchStart(uid, retry) ==
  [uid |-> uid, phase |-> "listings", retry |-> retry, cur |-> TRUE]


\* The effects of one commit run in source order, each with the values of the
\* render that scheduled it; the state they set is committed afterwards.
RunEffects ==
  /\ mounted /\ ~Quiet
  /\ LET runCheck == "checkToken" \in pendingEffects /\ user # NoUser
         localToken == localStorage["ebay_user_token"]
         setLocal == runCheck /\ Truthy(localToken)
         runFetch == "fetchListings" \in pendingEffects /\ Truthy(ebayToken)
         tokenAfter == IF setLocal THEN localToken ELSE ebayToken
     IN  /\ checks' = IF runCheck
                      THEN checks (+) SetToBag({CheckStart(localStorage, user, now)})
                      ELSE checks
         /\ fetches' = Superseded(
                         IF runFetch
                         THEN fetches (+) SetToBag({FetchStart(user, ev = "refresh_ok")})
                         ELSE fetches,
                         ebayToken, tokenAfter)
         /\ ebayToken' = tokenAfter
         /\ needsConnection' = IF setLocal THEN FALSE ELSE needsConnection
         /\ loadingListings' = IF runFetch THEN TRUE ELSE loadingListings
         /\ listingsError' = IF runFetch THEN NoError ELSE listingsError
         /\ pendingEffects' = Commit(ebayToken, tokenAfter, FALSE)
         /\ ev' = "effects"
  /\ UNCHANGED <<localStorage, user, mounted, exchanges, now, budget, vstate>>

\* Lines 88-102: getValidAuthToken has returned `token` to checkToken.
checkTokenResume(c, token, ls, op) ==
  /\ checks' = checks (-) SetToBag({c})
  /\ IF Truthy(token)
     THEN /\ localStorage' = setItem(ls, "ebay_user_token", token)
          /\ ebayToken' = SetState(ebayToken, token)
          /\ needsConnection' = SetState(needsConnection, FALSE)
     ELSE /\ localStorage' = ls
          /\ ebayToken' = ebayToken
          /\ needsConnection' = IF c.hadLocal THEN needsConnection
                               ELSE SetState(needsConnection, TRUE)
  /\ pendingEffects' = Commit(ebayToken, ebayToken', FALSE)
  /\ fetches' = Superseded(fetches, ebayToken, ebayToken')
  /\ ev' = op
  /\ UNCHANGED <<user, mounted, loadingListings, listingsError, exchanges, now,
                 budget, vstate>>

\* The validator answered from storage (lines 19-21).
CheckResolved(c) ==
  /\ Quiet
  /\ BagIn(c, checks)
  /\ c.phase = "resolved"
  /\ checkTokenResume(c, Str(c.value), localStorage, "check_local")

\* The step that resumes checkToken once the validator's remote call has
\* answered `resp`.
CheckReturn(resp) == "check_remote_" \o resp.kind

CheckSteps == {"check_local"} \cup {CheckReturn(resp) : resp \in TokenStatusResponses}

\* The validator's remote call has completed (lines 33-61).
CheckRemoteReturn(c, resp) ==
  /\ Quiet
  /\ BagIn(c, checks)
  /\ c.phase = "remote"
  /\ checkTokenResume(c, ValidatorRemoteResult(resp),
                      ValidatorRemoteStore(localStorage, resp, now), CheckReturn(resp))

\* Results of apiService.inventory.getActiveListings: a successful response, a
\* failure response whose first error is 932, any other failure response, a
\* thrown error with status 401, any other thrown error.
ListingsOutcomes == {"ok", "err932", "errOther", "throw401", "throwOther"}

\* Responses of apiService.auth.refreshEbayUserToken.
RefreshResponses ==
  {[kind |-> k, access_token |-> Undefined, expires_in |-> NaN] :
     k \in {"throw", "throw401", "fail"}}
  \cup {[kind |-> "ok", access_token |-> a, expires_in |-> e] :
          a \in Tokens \cup {Undefined}, e \in {NaN, 1}}

\* Line 127.
RefreshOk(resp) == resp.kind = "ok" /\ TruthyField(resp.access_token)

\* Lines 140-141 and 157-158.
ClearTokens(ls) == removeItem(removeItem(ls, "ebay_user_token"), "ebay_refresh_token")

\* Lines 129-135.
RefreshStore(ls, resp, t) ==
  setItem(ls, "ebay_user_token",
          JSONstringify(resp.access_token, ExpiryAt(t, OrDefault(resp.expires_in))))


\* finallyLoading with the reset moved out of the `finally`.
finallyLoadingSkipped == loadingListings

\* Lines 165-167: the `finally` of fetchListings.
finallyLoading == SetState(loadingListings, FALSE)

\* fetchListingsCatch with the status test left out: a 401 is shown as any
\* other error.
fetchListingsCatchNoStatus(kind) ==
  /\ listingsError' = SetState(listingsError, "thrown")
  /\ loadingListings' = finallyLoading
  /\ UNCHANGED <<localStorage, ebayToken, needsConnection>>

\* fetchListingsCatch with the loading flag reset at the end of the `try`
\* instead of in a `finally`: a thrown error leaves it up.
fetchListingsCatchNoFinally(kind) ==
  IF kind = "throw401"
  THEN /\ localStorage' = ClearTokens(localStorage)
       /\ ebayToken' = SetState(ebayToken, Null)
       /\ needsConnection' = SetState(needsConnection, TRUE)
       /\ listingsError' = SetState(listingsError, NoError)
       /\ loadingListings' = loadingListings
  ELSE /\ listingsError' = SetState(listingsError, "thrown")
       /\ loadingListings' = loadingListings
       /\ UNCHANGED <<localStorage, ebayToken, needsConnection>>

\* Lines 150-167 with the `finally`: the catch block for an error of `kind`.
fetchListingsCatch(kind) ==
  IF kind = "throw401"
  THEN /\ localStorage' = ClearTokens(localStorage)
       /\ ebayToken' = SetState(ebayToken, Null)
       /\ needsConnection' = SetState(needsConnection, TRUE)
       /\ listingsError' = SetState(listingsError, NoError)
       /\ loadingListings' = finallyLoading
  ELSE /\ listingsError' = SetState(listingsError, "thrown")
       /\ loadingListings' = finallyLoading
       /\ UNCHANGED <<localStorage, ebayToken, needsConnection>>

\* Lines 119-126 and 147-167: getActiveListings has completed.
fetchListingsResume(f, outcome) ==
  /\ Quiet
  /\ BagIn(f, fetches)
  /\ f.phase = "listings"
  /\ ev' = outcome
  /\ CASE outcome = "ok" ->
            /\ loadingListings' = finallyLoading
            /\ UNCHANGED <<localStorage, ebayToken, needsConnection, listingsError>>
       [] outcome = "errOther" ->
            /\ listingsError' = SetState(listingsError, "failed")
            /\ loadingListings' = finallyLoading
            /\ UNCHANGED <<localStorage, ebayToken, needsConnection>>
       [] outcome = "err932" /\ f.uid # NoUser ->
            \* suspended again, at `await refreshEbayUserToken` (line 124)
            UNCHANGED <<localStorage, ebayToken, needsConnection, listingsError,
                        loadingListings>>
       [] outcome = "err932" /\ f.uid = NoUser ->
            \* `user.id` throws a TypeError on a null user (line 125)
            fetchListingsCatch("throwOther")
       [] OTHER ->
            fetchListingsCatch(outcome)
  /\ fetches' =
       Superseded(
         IF outcome = "err932" /\ f.uid # NoUser
         THEN (fetches (-) SetToBag({f})) (+) SetToBag({[f EXCEPT !.phase = "refresh"]})
         ELSE fetches (-) SetToBag({f}),
         ebayToken, ebayToken')
  /\ pendingEffects' = Commit(ebayToken, ebayToken', FALSE)
  /\ UNCHANGED <<user, mounted, checks, exchanges, now, budget, vstate>>

\* Lines 127-146 and 150-167: refreshEbayUserToken has completed.
refreshResume(f, resp) ==
  /\ Quiet
  /\ BagIn(f, fetches)
  /\ f.phase = "refresh"
  /\ CASE resp.kind \in {"throw", "throw401"} ->
            /\ fetchListingsCatch(IF resp.kind = "throw401" THEN "throw401" ELSE "throwOther")
            /\ ev' = IF resp.kind = "throw401" THEN "refresh_threw401" ELSE "refresh_threw"
       [] RefreshOk(resp) ->
            /\ localStorage' = RefreshStore(localStorage, resp, now)
            /\ ebayToken' = SetState(ebayToken, Str(resp.access_token))
            /\ loadingListings' = finallyLoading
            /\ UNCHANGED <<needsConnection, listingsError>>
            /\ ev' = "refresh_ok"
       [] OTHER ->
            /\ localStorage' = ClearTokens(localStorage)
            /\ ebayToken' = SetState(ebayToken, Null)
            /\ needsConnection' = SetState(needsConnection, TRUE)
            /\ loadingListings' = finallyLoading
            /\ UNCHANGED listingsError
            /\ ev' = "refresh_failed"
  /\ fetches' = Superseded(fetches (-) SetToBag({f}), ebayToken, ebayToken')
  /\ pendingEffects' = Commit(ebayToken, ebayToken', FALSE)
  /\ UNCHANGED <<user, mounted, checks, exchanges, now, budget, vstate>>

\* Lines 175-179: the ebayTokenExpired signal.
handleTokenExpiry ==
  /\ mounted /\ Quiet /\ budget > 0
  /\ budget' = budget - 1
  /\ ebayToken' = Null
  /\ needsConnection' = TRUE
  /\ listingsError' = NoError
  /\ pendingEffects' = Commit(ebayToken, Null, FALSE)
  /\ fetches' = Superseded(fetches, ebayToken, Null)
  /\ ev' = "ebayTokenExpired"
  /\ UNCHANGED <<localStorage, user, mounted, loadingListings, checks, exchanges,
                 now, vstate>>

\* PurgeAll with one removeItem forgotten.
PurgeAllButUserId(ls) == [k \in Keys |-> IF k = "userId" THEN ls[k] ELSE Null]

\* Lines 187-191.
PurgeAll(ls) == [k \in Keys |-> Null]

\* Lines 181-195: the authenticationFailed signal. The reload ends the page's
\* script: every pending continuation dies with it, and the stored session is
\* gone, so the dashboard is not mounted again.
handleAuthFailure ==
  /\ mounted /\ Quiet /\ budget > 0
  /\ budget' = budget - 1
  /\ localStorage' = PurgeAll(localStorage)
  /\ user' = NoUser
  /\ mounted' = FALSE
  /\ ebayToken' = Null
  /\ needsConnection' = FALSE
  /\ loadingListings' = FALSE
  /\ listingsError' = NoError
  /\ pendingEffects' = {}
  /\ checks' = EmptyBag
  /\ exchanges' = EmptyBag
  /\ fetches' = EmptyBag
  /\ ev' = "authenticationFailed"
  /\ UNCHANGED <<now, vstate>>

\* Line 25: the store publishes a new user object (possibly with the same id).
UserChange(u) ==
  /\ mounted /\ Quiet /\ budget > 0
  /\ u # NoUser \/ user # NoUser
  /\ budget' = budget - 1
  /\ user' = u
  /\ pendingEffects' = Commit(ebayToken, ebayToken, TRUE)
  /\ ev' = "user"
  /\ UNCHANGED <<localStorage, mounted, ebayToken, needsConnection, loadingListings,
                 listingsError, checks, exchanges, fetches, now, vstate>>

\* Lines 70 and 200-203: the component unmounts and its listeners are removed.
Unmount ==
  /\ mounted /\ Quiet /\ budget > 0
  /\ budget' = budget - 1
  /\ mounted' = FALSE
  /\ ev' = "unmount"
  /\ UNCHANGED <<localStorage, user, ebayToken, needsConnection, loadingListings,
                 listingsError, pendingEffects, checks, exchanges, fetches, now,
                 vstate>>

\* Time passes.
Tick ==
  /\ Quiet /\ budget > 0
  /\ budget' = budget - 1
  /\ now + TickMs <= MaxNow
  /\ now' = now + TickMs
  /\ ev' = "tick"
  /\ UNCHANGED <<localStorage, user, mounted, ebayToken, needsConnection,
                 loadingListings, listingsError, pendingEffects, checks, exchanges,
                 fetches, vstate>>

\* Lines 207-297: the views the render of the current state puts on the page
\* (at the dashboard's own path): the connect prompt, returned early at line
\* 207, or the branch of the conditional at lines 277-295.
RenderedViews ==
  IF needsConnection
  THEN {"connect"}
  ELSE (IF loadingListings THEN {"loading"} ELSE {})
       \cup (IF ~loadingListings /\ listingsError # NoError THEN {"error"} ELSE {})
       \cup (IF ~loadingListings /\ listingsError = NoError THEN {"listings"} ELSE {})

\* What an earlier session of the program can have left under ebay_user_token:
\* nothing, a record that is still valid at mount, or one that has expired.
InitialTokenEntries ==
  {Null, JSONstringify("t1", MsPerSecond), JSONstringify("t1", 0)}

\* The validator called on its own: nothing has been called yet.
NoCall == [op |-> "none", raw |-> Null, t |-> 0, calls |-> 0, ret |-> Null, remote |-> FALSE]
VIdle == [calls |-> 0, pending |-> 0, prev |-> NoCall, last |-> NoCall]

Init ==
  /\ localStorage \in
       {[k \in Keys |->
           CASE k = "ebay_user_token" -> tokenEntry
             [] k = "ebay_refresh_token" -> IF tokenEntry = Null THEN Null ELSE Str("r1")
             [] k = "userId" -> IF tokenEntry = Null THEN Null ELSE Str("u1")
             [] OTHER -> Str("blob")] :
          tokenEntry \in InitialTokenEntries}
  /\ user \in Users \cup {NoUser}
  /\ mounted = TRUE
  /\ ebayToken = Null
  /\ needsConnection = FALSE
  /\ loadingListings = FALSE
  /\ listingsError = NoError
  /\ pendingEffects = {"checkToken", "fetchListings"}
  /\ checks = EmptyBag
  /\ exchanges = EmptyBag
  /\ fetches = EmptyBag
  /\ now = 0
  /\ ev = "mount"
  /\ budget = MaxEvents
  /\ vstate = VIdle

Next ==
  \/ \E o \in Origins, code \in BOOLEAN : handleMessage(o, code)
  \/ \E x \in BagToSet(exchanges), resp \in ExchangeResponses : handleMessageResume(x, resp)
  \/ RunEffects
  \/ \E c \in BagToSet(checks) : CheckResolved(c)
  \/ \E c \in BagToSet(checks), resp \in TokenStatusResponses : CheckRemoteReturn(c, resp)
  \/ \E f \in BagToSet(fetches), outcome \in ListingsOutcomes : fetchListingsResume(f, outcome)
  \/ \E f \in BagToSet(fetches), resp \in RefreshResponses : refreshResume(f, resp)
  \/ handleTokenExpiry
  \/ handleAuthFailure
  \/ \E u \in Users \cup {NoUser} : UserChange(u)
  \/ Unmount
  \/ Tick

Spec == Init /\ [][Next]_vars

\* Scheduling: React runs the effects of every commit, and every network call
\* that was started is answered (with a response or a rejection), so each
\* suspended call is resumed, also when effects keep being scheduled in
\* between. External events are under no obligation.
Fairness ==
  /\ WF_vars(RunEffects)
  /\ SF_vars(\E c \in BagToSet(checks) : CheckResolved(c))
  /\ SF_vars(\E c \in BagToSet(checks), resp \in TokenStatusResponses :
               CheckRemoteReturn(c, resp))
  /\ SF_vars(\E x \in BagToSet(exchanges), resp \in ExchangeResponses :
               handleMessageResume(x, resp))
  /\ SF_vars(\E f \in BagToSet(fetches), outcome \in ListingsOutcomes :
               fetchListingsResume(f, outcome))
  /\ SF_vars(\E f \in BagToSet(fetches), resp \in RefreshResponses :
               refreshResume(f, resp))

SpecFair == Init /\ [][Next]_vars /\ Fairness

\* The dashboard left to itself after mount: no message, signal, user change,
\* unmount or clock tick, only the effects and the answers to the calls made.
NextNoEvents ==
  \/ RunEffects
  \/ \E c \in BagToSet(checks) : CheckResolved(c)
  \/ \E c \in BagToSet(checks), resp \in TokenStatusResponses : CheckRemoteReturn(c, resp)
  \/ \E f \in BagToSet(fetches), outcome \in ListingsOutcomes : fetchListingsResume(f, outcome)
  \/ \E f \in BagToSet(fetches), resp \in RefreshResponses : refreshResume(f, resp)

SpecNoEvents == Init /\ [][NextNoEvents]_vars /\ Fairness

-----------------------------------------------------------------------------
\* getValidAuthToken called on its own, on any stored entry and at any time.

\* Everything localStorage can hold under ebay_user_token: nothing, a bare
\* string, or the JSON text of a record whose fields may be missing.
StoredEntries ==
  {Null, Str("t1")}
  \cup {JSONstringify(v, e) :
          v \in {"t1", "", Undefined}, e \in {NullExpiry} \cup (0 .. MaxNowV + 1)}

\* What one step of the validator leaves on record: the entry and the time it
\* read, the remote calls made before it, what it returned, and whether it
\* went to the remote endpoint.
Called(raw, t, calls, ret, remote) ==
  [op |-> "call", raw |-> raw, t |-> t, calls |-> calls, ret |-> ret, remote |-> remote]

\* Lines 13-33: getValidAuthToken(userId) up to its return or its await.
getValidAuthToken ==
  /\ LET raw == localStorage["ebay_user_token"]
     IN  IF StoredValid(raw, now)
         THEN /\ vstate' = [vstate EXCEPT
                              !.prev = vstate.last,
                              !.last = Called(raw, now, vstate.calls,
                                              Str(JSONparse(raw).value), FALSE)]
              /\ ev' = "validator_local"
         ELSE /\ vstate.calls < MaxCallsV
              /\ vstate' = [vstate EXCEPT
                              !.calls = vstate.calls + 1,
                              !.pending = vstate.pending + 1,
                              !.prev = vstate.last,
                              !.last = Called(raw, now, vstate.calls, Null, TRUE)]
              /\ ev' = "validator_remote"
  /\ UNCHANGED <<localStorage, user, mounted, ebayToken, needsConnection,
                 loadingListings, listingsError, pendingEffects, checks, exchanges,
                 fetches, now, budget>>

\* The step that resumes the validator with the response `resp`.
ValidatorReturn(resp) ==
  "validator_return_" \o resp.kind \o "_" \o resp.access_token
    \o (IF resp.expires_in_seconds = NaN THEN "_noexpiry" ELSE "_expiry")

\* Lines 33-61: the remote call has completed and the validator returns.
getValidAuthTokenResume(resp) ==
  /\ vstate.pending > 0
  /\ localStorage' = ValidatorRemoteStore(localStorage, resp, now)
  /\ vstate' = [vstate EXCEPT
                  !.pending = vstate.pending - 1,
                  !.prev = NoCall,
                  !.last = [op |-> "return", raw |-> localStorage["ebay_user_token"],
                            t |-> now, calls |-> vstate.calls,
                            ret |-> ValidatorRemoteResult(resp), remote |-> TRUE]]
  /\ ev' = ValidatorReturn(resp)
  /\ UNCHANGED <<user, mounted, ebayToken, needsConnection, loadingListings,
                 listingsError, pendingEffects, checks, exchanges, fetches, now,
                 budget>>

\* Time passes between two calls.
TickV ==
  /\ now < MaxNowV
  /\ now' = now + 1
  /\ vstate' = [vstate EXCEPT !.prev = NoCall, !.last = NoCall]
  /\ ev' = "tick"
  /\ UNCHANGED <<localStorage, user, mounted, ebayToken, needsConnection,
                 loadingListings, listingsError, pendingEffects, checks, exchanges,
                 fetches, budget>>

InitV ==
  /\ localStorage \in
       {[k \in Keys |-> IF k = "ebay_user_token" THEN e ELSE Null] : e \in StoredEntries}
  /\ now \in 0 .. MaxNowV
  /\ user = "u1"
  /\ mounted = FALSE
  /\ ebayToken = Null
  /\ needsConnection = FALSE
  /\ loadingListings = FALSE
  /\ listingsError = NoError
  /\ pendingEffects = {}
  /\ checks = EmptyBag
  /\ exchanges = EmptyBag
  /\ fetches = EmptyBag
  /\ ev = "start"
  /\ budget = 0
  /\ vstate = VIdle

NextV ==
  \/ getValidAuthToken
  \/ \E resp \in TokenStatusResponses : getValidAuthTokenResume(resp)
  \/ TickV

SpecValidator == InitV /\ [][NextV]_vars

-----------------------------------------------------------------------------
\* Properties.

TokenStateCleared ==
  /\ localStorage["ebay_user_token"] = Null
  /\ localStorage["ebay_refresh_token"] = Null
  /\ ebayToken = Null
  /\ needsConnection

\* An entry of ebay_user_token that is a complete record: a non-empty value and
\* a numeric expiry.
WellFormedRecord(raw) ==
  /\ raw.kind = "json"
  /\ raw.value \notin {"", Undefined}
  /\ raw.expiry # NullExpiry

\* A record that is valid by the data model: now < expiry and value non-empty.
RecordUnexpired(raw, t) == WellFormedRecord(raw) /\ t < raw.expiry

\* C1: after a 932 failure and a refresh that succeeds with a new access token,
\* the token is persisted and stored in ebayToken, the token-change effect
\* starts exactly one listings fetch for it, and when that fetch succeeds
\* loadingListings is false and listingsError is none.
C1_RefreshThenRetry ==
  [][ /\ (ev' = "refresh_ok" /\ mounted /\ ebayToken' # ebayToken)
         => /\ ebayToken'.kind = "str"
            /\ WellFormedRecord(localStorage'["ebay_user_token"])
            /\ localStorage'["ebay_user_token"].value = ebayToken'.value
            /\ pendingEffects' = {"fetchListings"}
            /\ ~loadingListings'
      /\ (ev = "refresh_ok" /\ pendingEffects = {"fetchListings"})
         => /\ ev' = "effects"
            /\ ebayToken' = ebayToken
            /\ fetches' = fetches (+) SetToBag({FetchStart(user, TRUE)})
            /\ pendingEffects' = {}
      /\ \A f \in BagToSet(fetches) :
           (f.retry /\ mounted /\ ev' = "ok" /\ BagCardinality(fetches') < BagCardinality(fetches)
              /\ CopiesIn(f, fetches') < CopiesIn(f, fetches))
           => (~loadingListings' /\ listingsError' = NoError)
    ]_vars

\* C2: whenever the refresh attempted after a 932 failure fails (unsuccessful
\* response, no access token, thrown error), both persisted tokens are absent,
\* ebayToken is absent and needsConnection is true afterwards.
C2_RefreshFailureTeardown ==
  [][ (ev' \in {"refresh_failed", "refresh_threw", "refresh_threw401"} /\ mounted)
      => TokenStateCleared' ]_vars

\* C3: a popup message whose origin is not the page's own starts no exchange
\* and leaves both persisted tokens, ebayToken and needsConnection unchanged.
C3_OriginRejection ==
  [][ ev' \in {"message_foreign_code", "message_foreign_nocode"}
      => /\ exchanges' = exchanges
         /\ localStorage' = localStorage
         /\ ebayToken' = ebayToken
         /\ needsConnection' = needsConnection ]_vars

C3_Witness ==
  ev = "message_foreign_code" /\ mounted /\ user # NoUser

\* C4: the persisted ebay_user_token entry is always absent or a complete
\* record {value, expiry} with a non-empty value and a numeric expiry.
C4_FullRecordOnly ==
  \/ localStorage["ebay_user_token"] = Null
  \/ WellFormedRecord(localStorage["ebay_user_token"])

\* C5: two calls of the validator in succession on an unexpired stored record
\* return the same token value, make no remote call and leave the stored
\* record unchanged.
C5_IdempotentValidation ==
  (/\ vstate.prev.op = "call"
   /\ vstate.last.op = "call"
   /\ RecordUnexpired(vstate.prev.raw, vstate.prev.t))
  => /\ vstate.prev.ret = Str(vstate.prev.raw.value)
     /\ vstate.last.ret = vstate.prev.ret
     /\ ~vstate.prev.remote /\ ~vstate.last.remote
     /\ vstate.calls = vstate.prev.calls
     /\ localStorage["ebay_user_token"] = vstate.prev.raw

C5_Witness ==
  /\ vstate.prev.op = "call"
  /\ vstate.last.op = "call"
  /\ RecordUnexpired(vstate.prev.raw, vstate.prev.t)
  /\ vstate.last.ret = Str("t1")

\* C6: the validator returns the stored value without a remote call if and only
\* if now < expiry and the value is non-empty; a record with expiry = now - 1 or
\* expiry = now leads to a remote call, one with expiry = now + 1 does not.
C6_ExpiryBoundary ==
  vstate.last.op = "call"
  => /\ RecordUnexpired(vstate.last.raw, vstate.last.t)
        <=> (~vstate.last.remote /\ vstate.last.ret = Str(vstate.last.raw.value))
     /\ ~RecordUnexpired(vstate.last.raw, vstate.last.t)
        <=> (vstate.last.remote /\ vstate.calls = vstate.last.calls + 1)
     /\ (WellFormedRecord(vstate.last.raw) /\ vstate.last.raw.expiry = vstate.last.t + 1)
        => ~vstate.last.remote
     /\ (WellFormedRecord(vstate.last.raw)
           /\ vstate.last.raw.expiry \in {vstate.last.t - 1, vstate.last.t})
        => vstate.last.remote

C6_Witness ==
  /\ vstate.last.op = "call"
  /\ WellFormedRecord(vstate.last.raw)
  /\ vstate.last.raw.expiry = vstate.last.t + 1
  /\ vstate.last.ret = Str("t1")

\* C7: a listings fetch that throws a 401 leaves both persisted tokens absent,
\* ebayToken absent, needsConnection true, listingsError none and
\* loadingListings false.
C7_UnauthorizedTeardown ==
  [][ (ev' = "throw401" /\ mounted)
      => (TokenStateCleared' /\ listingsError' = NoError /\ ~loadingListings') ]_vars

C7_Witness ==
  ev = "throw401" /\ mounted /\ needsConnection /\ ~loadingListings

\* C8: every listings fetch that completes sets loadingListings to false, and
\* loadingListings is false whenever no listings fetch is in flight.
C8_LoadingCleared ==
  /\ []((mounted /\ fetches = EmptyBag) => ~loadingListings)
  /\ [][ (mounted /\ BagCardinality(fetches') < BagCardinality(fetches))
          => ~loadingListings' ]_vars

C8_Witness ==
  mounted /\ ev = "throwOther" /\ fetches = EmptyBag /\ listingsError = "thrown"

\* C9: at most one listings fetch is in flight per ebayToken value, and a fetch
\* is started only by a change of ebayToken, never by a change of the user
\* object while the token is unchanged.
C9_OneFetchPerToken ==
  [][ /\ \A f \in BagToSet(fetches') :
           f.cur => (CopiesIn(f, fetches') = 1
                     /\ \A g \in BagToSet(fetches') : g.cur => g = f)
      /\ (ev' = "effects" /\ BagCardinality(fetches') > BagCardinality(fetches))
         => "checkToken" \notin pendingEffects ]_vars

\* C10: once the dashboard has unmounted, the completion of a network call
\* changes neither ebay_user_token, ebay_refresh_token, userId nor any field of
\* the dashboard state.
C10_StaleResultsIgnored ==
  [][ ~mounted
      => /\ localStorage'["ebay_user_token"] = localStorage["ebay_user_token"]
         /\ localStorage'["ebay_refresh_token"] = localStorage["ebay_refresh_token"]
         /\ localStorage'["userId"] = localStorage["userId"]
         /\ UNCHANGED <<ebayToken, needsConnection, loadingListings, listingsError>>
    ]_vars

\* The flows that write the pair (ebayToken, needsConnection) when they
\* resolve: connected with a token, or not connected and no token.
ConnectedPair(tok, nc) == Truthy(tok) /\ tok.kind = "str" /\ ~nc
DisconnectedPair(tok, nc) == tok = Null /\ nc

\* C11: when a popup exchange and a token check were in flight together, the
\* pair (ebayToken, needsConnection) left by the one that resolves last is the
\* pair that flow writes, never ebayToken of one flow with needsConnection of
\* the other: a resolution either leaves the pair alone or replaces both.
C11_LastResolverWins ==
  [][ /\ \A c \in BagToSet(checks) :
           (mounted /\ c.raced /\ exchanges = EmptyBag
              /\ ev' \in CheckSteps
              /\ CopiesIn(c, checks') < CopiesIn(c, checks))
           => \/ <<ebayToken', needsConnection'>> = <<ebayToken, needsConnection>>
              \/ ConnectedPair(ebayToken', needsConnection')
              \/ DisconnectedPair(ebayToken', needsConnection')
      /\ (mounted /\ ev' \in ExchangeOkSteps /\ checks = EmptyBag)
         => ConnectedPair(ebayToken', needsConnection')
    ]_vars

\* C12: an authenticationFailed signal received while the dashboard is mounted
\* leaves none of the keys user-store, ebay_user_token, ebay_refresh_token,
\* userId, user_id in storage and reloads the page (the dashboard and every
\* call in flight are gone), whatever the state and the keys present before.
C12_HardReset ==
  [][ ev' = "authenticationFailed"
      => /\ mounted
         /\ \A k \in Keys : localStorage'[k] = Null
         /\ ~mounted'
         /\ checks' = EmptyBag /\ exchanges' = EmptyBag /\ fetches' = EmptyBag
    ]_vars

C12_Witness ==
  /\ ev = "authenticationFailed"
  /\ \A k \in Keys : localStorage[k] = Null
  /\ ~mounted

\* C13: when exchangeCode succeeds for a trusted message with a code and a
\* known user, ebay_user_token holds the record {value: access_token,
\* expiry: now + expires_in * 1000}, expires_in being 7200 when the response
\* has none; ebay_refresh_token is written if and only if the response carries
\* a refresh token; ebayToken is the access token and needsConnection is false.
C13_ExchangeSuccess ==
  [][ \A resp \in ExchangeResponses :
        (resp.kind = "ok" /\ mounted /\ ev' = ExchangeReturn(resp))
        => /\ localStorage'["ebay_user_token"] =
                [kind |-> "json", value |-> resp.access_token,
                 expiry |-> now + (IF resp.expires_in = NaN THEN DefaultExpiresIn
                                   ELSE resp.expires_in) * MsPerSecond]
           /\ localStorage'["ebay_refresh_token"] =
                (IF resp.refresh_token # Undefined THEN Str(resp.refresh_token)
                 ELSE localStorage["ebay_refresh_token"])
           /\ ebayToken' = Str(resp.access_token)
           /\ ~needsConnection'
    ]_vars

C13_Witness ==
  /\ mounted
  /\ ev = "exchange_ok_t1_noexpiry_norefresh"
  /\ localStorage["ebay_user_token"] =
       [kind |-> "json", value |-> "t1", expiry |-> now + DefaultExpiresIn * MsPerSecond]
  /\ localStorage["ebay_refresh_token"] = Null
  /\ ebayToken = Str("t1")
  /\ ~needsConnection

ExchangeFailedSteps ==
  {ExchangeReturn(resp) : resp \in {r \in ExchangeResponses : r.kind # "ok"}}

\* C14: when exchangeCode fails (an unsuccessful response or a thrown error),
\* storage, ebayToken and needsConnection are left as they were, the call ends
\* there with no effect scheduled, and an exchange is started only by a
\* message: none follows the failure on its own.
C14_ExchangeFailure ==
  [][ /\ ev' \in ExchangeFailedSteps
         => /\ localStorage' = localStorage
            /\ ebayToken' = ebayToken
            /\ needsConnection' = needsConnection
            /\ BagCardinality(exchanges') = BagCardinality(exchanges) - 1
            /\ pendingEffects' = {}
      /\ BagCardinality(exchanges') > BagCardinality(exchanges)
         => ev' = "message_own_code"
    ]_vars

C14_Witness ==
  /\ mounted
  /\ ev \in ExchangeFailedSteps
  /\ needsConnection
  /\ ebayToken = Null
  /\ exchanges = EmptyBag

\* C15: the validator called with no valid stored record returns the remote
\* access token and stores the record {value: access_token, expiry: now +
\* expires_in_seconds * 1000} when the token-status call succeeds; when the
\* call throws or answers unsuccessfully it returns null and storage is left
\* as it was.
C15_RemoteValidation ==
  [][ \A resp \in TokenStatusResponses :
        ev' = ValidatorReturn(resp)
        => /\ (resp.kind = "ok" /\ resp.expires_in_seconds # NaN)
              => /\ vstate'.last.ret = Str(resp.access_token)
                 /\ localStorage' =
                      [localStorage EXCEPT !["ebay_user_token"] =
                         [kind |-> "json", value |-> resp.access_token,
                          expiry |-> now + resp.expires_in_seconds * MsPerSecond]]
           /\ resp.kind # "ok"
              => /\ vstate'.last.ret = Null
                 /\ localStorage' = localStorage
    ]_vars

C15_Witness ==
  /\ ev = "validator_return_ok_t1_expiry"
  /\ vstate.last.op = "return"
  /\ ~RecordUnexpired(vstate.last.raw, vstate.last.t)
  /\ vstate.last.raw # Null
  /\ vstate.last.ret = Str("t1")
  /\ localStorage["ebay_user_token"] =
       [kind |-> "json", value |-> "t1", expiry |-> now + MsPerSecond]

\* C16: whenever the token check completes with the validator returning absent
\* (no valid stored record, and the token-status call threw or was
\* unsuccessful), needsConnection is true afterwards, also when an expired or
\* malformed ebay_user_token entry was in storage when the check started.
C16_AbsentMeansConnect ==
  [][ (mounted /\ ev' \in {"check_remote_throw", "check_remote_fail"})
      => needsConnection' ]_vars

\* C17: ebayToken is always absent or an access-token value (the value field
\* of a record, or the token a remote call returned), never the serialized
\* text of a storage entry.
C17_TokenIsAccessToken ==
  \/ ebayToken = Null
  \/ (ebayToken.kind = "str" /\ ebayToken.value \in Tokens)

\* C18: exactly one of the views connect, loading, error, listings is rendered;
\* the listings view is rendered only when ebayToken is present, loadingListings
\* is false, listingsError is none and needsConnection is false; the loading
\* view is rendered whenever a listings fetch is in flight and needsConnection
\* is false.
C18_ViewSelection ==
  mounted
  => /\ Cardinality(RenderedViews) = 1
     /\ "listings" \in RenderedViews
        => /\ Truthy(ebayToken)
           /\ ~loadingListings
           /\ listingsError = NoError
           /\ ~needsConnection
     /\ (fetches # EmptyBag /\ ~needsConnection) => "loading" \in RenderedViews

\* C19: whenever needsConnection is true, ebayToken is absent: the dashboard
\* never shows the connect prompt while it holds a token.
C19_PromptImpliesNoToken ==
  (mounted /\ needsConnection) => ebayToken = Null

\* No effect is pending, no listings fetch or refresh is in flight and the
\* loading flag is down.
FetchQuiescent ==
  /\ pendingEffects = {}
  /\ fetches = EmptyBag
  /\ mounted => ~loadingListings

\* C20: the fetch/refresh cycle terminates: from any state with a listings
\* fetch or a refresh in flight, the dashboard reaches a state with none in
\* flight, no effect pending and loadingListings false, whatever the listings
\* and refresh endpoints answer (external events are bounded in number).
C20_FetchCycleTerminates ==
  (fetches # EmptyBag) ~> FetchQuiescent

\* C20 as amended: from any state with a listings fetch or a refresh in
\* flight, the dashboard reaches a state with none in flight, no effect pending
\* and loadingListings false, or else a refresh succeeds: only a successful
\* refresh keeps the cycle going, by the one fetch it re-invokes.
C20_TerminatesUnlessRefreshed ==
  (fetches # EmptyBag) ~> (FetchQuiescent \/ ev = "refresh_ok")

C20_Witness ==
  /\ mounted
  /\ budget = MaxEvents
  /\ ev = "ok"
  /\ FetchQuiescent
  /\ ebayToken = Str("t2")
  /\ localStorage["ebay_user_token"] =
       [kind |-> "json", value |-> "t2", expiry |-> now + DefaultExpiresIn * MsPerSecond]

====
